---- MODULE Spec2Model ----
(***************************************************************************)
(* A model of the block packer of atterpac/bt-challenge                    *)
(* (internal/packer): Pack / packFiles / writeBlock on the write side,     *)
(* ValidateBlock / Unpack / UnpackBlock / extractFile on the read side.    *)
(*                                                                         *)
(* A byte stream is a sequence of cells.  Every cell is a sequence of      *)
(* integers, so that any two cells can be compared.  A payload or path     *)
(* byte b is the cell <<b>>; a fixed-width integer field (binary.Write of  *)
(* an int32/int64/uint32) is one cell <<v>>, written and read whole; a     *)
(* SHA-256 digest is DigestCells cells.  SHA-256 is modelled as a          *)
(* collision-free function: the digest of a stream is a term built from    *)
(* the stream itself, so two digests are equal exactly when the hashed     *)
(* streams are equal.                                                      *)
(***************************************************************************)
EXTENDS Integers, Sequences, FiniteSets, TLC

VARIABLES
    opts,          \* PackerOptions of the packer: BlockSize, VerifyIntegrity
    src,           \* the input directory: its regular files in filepath.Walk order
    dest,          \* the block directory: block number -> stream of block-<N>.beam
    out,           \* the unpack directory: stored path -> restored file
    pc,            \* position of the program: "idle", "packFiles", "packed", "verified",
                   \* "unpack", "extract", "done", "crashed"
    entry,         \* which operation started the packing run: "Pack" or "packFiles"
    files,         \* packFiles: the descriptor slice it ranges over
    idx,           \* packFiles: index of the next descriptor of the for loop
    blockNum,      \* packFiles: blockNum
    currentBlock,  \* packFiles: *currentBlock
    currentSize,   \* packFiles: currentSize
    packErr,       \* what Pack / packFiles returned
    sealed,        \* history: the Block values handed to writeBlock, in call order
    tampered,      \* history: <<block number, stream index>> of every changed cell
    verifyErr,     \* what the last Verify returned
    queue,         \* Unpack: the .beam entries of the directory still to process
    ufiles,        \* UnpackBlock: files, the decoded metadata records
    pos,           \* UnpackBlock: number of cells of f consumed so far
    k,             \* UnpackBlock: index of the next record of the extract loop
    unpackErr,     \* what Unpack returned
    extracted,     \* history: <<block number, record index>> of every extractFile that returned nil
    prev,          \* history: what the previous packing run wrote, <<>> before a second run
    handles,       \* the file handles that an operation left open when it returned
    malformed      \* history: <<block number, what>> of every block file damaged in its structure

vars == <<opts, src, dest, out, pc, entry, files, idx, blockNum, currentBlock,
          currentSize, packErr, sealed, tampered, verifyErr, queue, ufiles, pos,
          k, unpackErr, extracted, prev, handles, malformed>>

packVars == <<files, idx, blockNum, currentBlock, currentSize>>
unpackVars == <<queue, ufiles, pos, k, unpackErr, extracted>>
auxVars == <<prev, handles, malformed>>

(***************************************************************************)
(* Bounds of the model.                                                    *)
(***************************************************************************)
\* Largest number of regular files in the input directory.
MaxFiles == 3
\* Largest configured block capacity (capacities range over 1..MaxBlockSize);
\* file sizes range over 0..MaxBlockSize+1.
MaxBlockSize == 2
\* Cells per SHA-256 digest (sha256.Size is 32 bytes in the code).
DigestCells == 2
\* Largest number of payload cells the environment changes after packing.
MaxTamper == 1

(***************************************************************************)
(* Streams, digests and errors.                                            *)
(***************************************************************************)
Cell(v) == <<v>>

Cells(bytes) == [j \in 1..Len(bytes) |-> Cell(bytes[j])]

Bytes(cells) == [j \in 1..Len(cells) |-> cells[j][1]]

RECURSIVE Flatten(_)
Flatten(s) ==
    IF s = <<>> THEN <<>>
    ELSE <<Len(Head(s))>> \o Head(s) \o Flatten(Tail(s))

\* sha256.New(); io.Copy(h, ...); h.Sum(nil)
Sum256(data) == [j \in 1..DigestCells |-> <<j>> \o Flatten(data)]

Nil == [kind |-> "nil", what |-> <<>>]

Err(kind, what) == [kind |-> kind, what |-> what]

RECURSIVE SumSizes(_)
SumSizes(recs) ==
    IF recs = <<>> THEN 0 ELSE Head(recs).Size + SumSizes(Tail(recs))

(***************************************************************************)
(* The input directory.  File i has path Path(i); its content is size      *)
(* bytes, its mode and modification time are fixed per path.               *)
(***************************************************************************)
Path(i) == <<1, i>>

ModeOf(i) == IF i % 2 = 1 THEN 420 ELSE 493

SrcFile(i, size) ==
    [Path    |-> Path(i),
     Content |-> [j \in 1..size |-> 10 + i],
     Mode    |-> ModeOf(i),
     ModTime |-> [sec |-> 100 + i, nsec |-> i % 2]]

\* os.Stat(path) / os.Open(path) of a file of the input directory
FileAt(path) == CHOOSE f \in {src[i] : i \in 1..Len(src)} : f.Path = path

\* FileInfo{Path, Size, ModTime, Mode} as collectFileInfo builds it from os.Stat
StatInfo(f) ==
    [Path |-> f.Path, Size |-> Len(f.Content), ModTime |-> f.ModTime, Mode |-> f.Mode]

(***************************************************************************)
(* Pack: discovery, filter, sort.                                          *)
(***************************************************************************)
\* a filter that also skips a file of exactly the block size
collectFileInfo_SkipsEqual(paths) ==
    LET infos == [i \in 1..Len(paths) |-> StatInfo(FileAt(paths[i]))]
    IN  SelectSeq(infos, LAMBDA f : ~(f.Size >= opts.BlockSize))

collectFileInfo(paths) ==
    LET infos == [i \in 1..Len(paths) |-> StatInfo(FileAt(paths[i]))]
    IN  SelectSeq(infos, LAMBDA f : ~(f.Size > opts.BlockSize))

\* less of Pack's sort.Slice call
Less(a, b) == a.Size > b.Size

\* sort.Slice(fileInfos, less): "The sort is not guaranteed to be stable: equal
\* elements may be reversed from their original order."  Every ordering of the
\* slice that is sorted by less is an outcome.
SortSlice(s) ==
    LET n == Len(s)
        perms == {[i \in 1..n |-> s[p[i]]] : p \in Permutations(1..n)}
    IN  {t \in perms : \A i \in 1..n : \A j \in 1..n : i < j => ~Less(t[j], t[i])}

(***************************************************************************)
(* Block codec, write side.                                                *)
(***************************************************************************)
NewBlock(id) == [ID |-> id, Files |-> <<>>, Size |-> 0]

\* an append that does not advance the block's size
addFileToBlock_StaleSize(block, file) ==
    LET metaData == [Path     |-> file.Path,
                     Size     |-> file.Size,
                     ModTime  |-> file.ModTime,
                     Mode     |-> file.Mode,
                     BlockID  |-> block.ID,
                     Offset   |-> block.Size,
                     Checksum |-> Sum256(Cells(FileAt(file.Path).Content))]
    IN  [ID    |-> block.ID,
         Files |-> Append(block.Files, metaData),
         Size  |-> block.Size]

addFileToBlock(block, file) ==
    LET metaData == [Path     |-> file.Path,
                     Size     |-> file.Size,
                     ModTime  |-> file.ModTime,
                     Mode     |-> file.Mode,
                     BlockID  |-> block.ID,
                     Offset   |-> block.Size,
                     Checksum |-> Sum256(Cells(FileAt(file.Path).Content))]
    IN  [ID    |-> block.ID,
         Files |-> Append(block.Files, metaData),
         Size  |-> block.Size + file.Size]

writeMetadata(metadata) ==
    <<Cell(Len(metadata.Path))>>
    \o Cells(metadata.Path)
    \o <<Cell(metadata.Size), Cell(metadata.ModTime.sec),
         Cell(metadata.Offset), Cell(metadata.Mode)>>
    \o metadata.Checksum

RECURSIVE MetadataSection(_)
MetadataSection(recs) ==
    IF recs = <<>> THEN <<>>
    ELSE writeMetadata(Head(recs)) \o MetadataSection(Tail(recs))

RECURSIVE PayloadSection(_)
PayloadSection(recs) ==
    IF recs = <<>> THEN <<>>
    ELSE Cells(FileAt(Head(recs).Path).Content) \o PayloadSection(Tail(recs))

\* a footer over the header and the metadata alone
writeBlock_HashesMetadataOnly(block, num) ==
    LET head == <<Cell(num), Cell(Len(block.Files))>> \o MetadataSection(block.Files)
    IN  head \o PayloadSection(block.Files) \o Sum256(head)

\* the stream of block-<num>.beam
writeBlock(block, num) ==
    LET body == <<Cell(num), Cell(Len(block.Files))>>
                \o MetadataSection(block.Files)
                \o PayloadSection(block.Files)
    IN  body \o Sum256(body)

\* what writeBlock has written of block-<num>.beam when io.Copy of the content
\* of record r fails after n cells of it: header, metadata, the contents of the
\* records before r and the n cells, and no footer
writeBlockUpTo(block, num, r, n) ==
    <<Cell(num), Cell(Len(block.Files))>>
    \o MetadataSection(block.Files)
    \o PayloadSection(SubSeq(block.Files, 1, r - 1))
    \o SubSeq(Cells(FileAt(block.Files[r].Path).Content), 1, n)

\* the handles writeBlock holds open when it returns from that failure: the
\* block file is closed by the deferred f.Close(); the source file of record r
\* is not, its f.Close() stands after the return
writeBlockLeavesOpen(block, r) == {block.Files[r].Path}

\* os.Create(blockPath) followed by the writes: the file is replaced
CreateFile(dir, num, stream) ==
    [b \in (DOMAIN dir) \cup {num} |-> IF b = num THEN stream ELSE dir[b]]

(***************************************************************************)
(* Block codec, read side.  p is the number of cells of the stream already *)
(* consumed.                                                               *)
(***************************************************************************)
\* binary.Read(r, binary.LittleEndian, &v): io.ReadFull of the whole field
ReadInt(s, p) ==
    IF p + 1 > Len(s)
    THEN [err |-> "EOF", val |-> 0, pos |-> p]
    ELSE [err |-> "nil", val |-> s[p + 1][1], pos |-> p + 1]

\* r.Read(buf) of an *os.File with len(buf) = n: nothing for an empty buffer,
\* io.EOF at end of file, else the bytes that are there (possibly fewer than n,
\* without an error); the rest of buf stays zero
FileRead(s, p, n) ==
    LET got == IF Len(s) - p < n THEN Len(s) - p ELSE n
    IN  IF n = 0 THEN [err |-> "nil", data |-> <<>>, pos |-> p]
        ELSE IF got <= 0 THEN [err |-> "EOF", data |-> <<>>, pos |-> p]
        ELSE [err  |-> "nil",
              data |-> [j \in 1..n |-> IF j <= got THEN s[p + j] ELSE Cell(0)],
              pos  |-> p + got]

NoMeta == [err |-> "nil", meta |-> <<>>, pos |-> 0]

\* make([]T, n) with n < 0 at run time: the goroutine panics, and nothing in the
\* program recovers
MakeslicePanic == "panic: makeslice: len out of range"

readMetadata(s, p) ==
    LET pathLen == ReadInt(s, p)
        path    == FileRead(s, pathLen.pos, pathLen.val)
        size    == ReadInt(s, path.pos)
        modTime == ReadInt(s, size.pos)
        offset  == ReadInt(s, modTime.pos)
        mode    == ReadInt(s, offset.pos)
        sum     == FileRead(s, mode.pos, DigestCells)
    IN  IF pathLen.err # "nil" THEN [NoMeta EXCEPT !.err = pathLen.err]
        ELSE IF pathLen.val < 0 THEN [NoMeta EXCEPT !.err = MakeslicePanic]
        ELSE IF path.err # "nil" THEN [NoMeta EXCEPT !.err = path.err]
        ELSE IF size.err # "nil" THEN [NoMeta EXCEPT !.err = size.err]
        ELSE IF modTime.err # "nil" THEN [NoMeta EXCEPT !.err = modTime.err]
        ELSE IF offset.err # "nil" THEN [NoMeta EXCEPT !.err = offset.err]
        ELSE IF mode.err # "nil" THEN [NoMeta EXCEPT !.err = mode.err]
        ELSE IF sum.err # "nil" THEN [NoMeta EXCEPT !.err = sum.err]
        ELSE [err  |-> "nil",
              meta |-> [Path     |-> Bytes(path.data),
                        Size     |-> size.val,
                        ModTime  |-> [sec |-> modTime.val, nsec |-> 0],
                        Offset   |-> offset.val,
                        Mode     |-> mode.val,
                        Checksum |-> sum.data],
              pos  |-> sum.pos]

\* the loop "for i := range files { readMetadata(f) }" of UnpackBlock, n records to go
RECURSIVE ReadRecords(_, _, _)
ReadRecords(s, p, n) ==
    IF n = 0 THEN [err |-> "nil", recs |-> <<>>, pos |-> p]
    ELSE LET m == readMetadata(s, p)
         IN  IF m.err # "nil" THEN [err |-> m.err, recs |-> <<>>, pos |-> p]
             ELSE LET rest == ReadRecords(s, m.pos, n - 1)
                  IN  [err  |-> rest.err,
                       recs |-> <<m.meta>> \o rest.recs,
                       pos  |-> rest.pos]

\* UnpackBlock from os.Open to the end of the metadata loop
DecodeBlock(s) ==
    LET blockID  == ReadInt(s, 0)
        numFiles == ReadInt(s, blockID.pos)
        recs     == ReadRecords(s, numFiles.pos, numFiles.val)
    IN  IF blockID.err # "nil" THEN [err |-> blockID.err, recs |-> <<>>, pos |-> 0]
        ELSE IF numFiles.err # "nil"
        THEN [err |-> "error reading number of files in block", recs |-> <<>>, pos |-> 0]
        ELSE IF numFiles.val < 0
        THEN [err |-> MakeslicePanic, recs |-> <<>>, pos |-> 0]
        ELSE IF recs.err = MakeslicePanic
        THEN [err |-> MakeslicePanic, recs |-> <<>>, pos |-> 0]
        ELSE IF recs.err # "nil"
        THEN [err |-> "error reading metadata for file", recs |-> <<>>, pos |-> 0]
        ELSE recs

(***************************************************************************)
(* IntegrityValidator.                                                     *)
(***************************************************************************)
\* a comparison of the lengths alone
ChecksumsEqual_LengthOnly(a, b) == Len(a) = Len(b)

ChecksumsEqual(a, b) ==
    /\ Len(a) = Len(b)
    /\ \A j \in 1..Len(a) : a[j] = b[j]

\* the part of the block file that ValidateBlock hashes: io.CopyN(h, f, size-32)
HashedPart(s) == SubSeq(s, 1, Len(s) - DigestCells)

ValidateBlock(s) ==
    LET blockID        == ReadInt(s, 0)
        storedChecksum == SubSeq(s, Len(s) - DigestCells + 1, Len(s))
        actualChecksum == Sum256(HashedPart(s))
    IN  IF blockID.err # "nil" THEN Err("error reading block ID", <<>>)
        ELSE IF Len(s) < DigestCells THEN Err("error seeking to checksum", <<>>)
        ELSE IF ~ChecksumsEqual(storedChecksum, actualChecksum)
        THEN Err("BlockIntegrityError", <<blockID.val>>)
        ELSE Nil

\* os.ReadDir returns the entries sorted by file name; with fewer than ten blocks
\* the order of block-<N>.beam is the order of N
RECURSIVE SortedEntries(_)
SortedEntries(ids) ==
    IF ids = {} THEN <<>>
    ELSE LET m == CHOOSE x \in ids : \A y \in ids : x <= y
         IN  <<m>> \o SortedEntries(ids \ {m})

\* the loop of Verify over the .beam entries: the first error is returned
RECURSIVE VerifyEntries(_)
VerifyEntries(q) ==
    IF q = <<>> THEN Nil
    ELSE IF ValidateBlock(dest[Head(q)]) # Nil THEN ValidateBlock(dest[Head(q)])
    ELSE VerifyEntries(Tail(q))

(***************************************************************************)
(* Extractor.                                                              *)
(***************************************************************************)
\* the modification time a file gets from being created or written to
Now == [sec |-> 999, nsec |-> 7]

\* what a write of data at offset 0 makes of a file opened without O_TRUNC
Overwrite(old, data) ==
    [j \in 1..(IF Len(old) > Len(data) THEN Len(old) ELSE Len(data)) |->
        IF j <= Len(data) THEN data[j] ELSE old[j]]

\* a verification that accepts every digest
ChecksumMatches_Always(sum, checksum) == TRUE

\* "bytes.Equal(h.Sum(nil), metadata.Checksum)" of extractFile
ChecksumMatches(sum, checksum) == sum = checksum

\* extractFile(r, outputDir, metadata) with r at position p of stream s and the
\* output directory dir: the error returned, the directory and the position after
extractFile(s, p, dir, metadata) ==
    LET outputPath == metadata.Path
        exists     == outputPath \in DOMAIN dir
        \* os.OpenFile(outputPath, O_CREATE|O_WRONLY, mode): an existing file keeps
        \* its content and its mode
        opened     == IF exists THEN dir[outputPath]
                      ELSE [Content |-> <<>>, Mode |-> metadata.Mode, ModTime |-> Now]
        want       == IF metadata.Size < 0 THEN 0 ELSE metadata.Size
        got        == IF Len(s) - p < want THEN Len(s) - p ELSE want
        data       == SubSeq(s, p + 1, p + got)
        written    == [Content |-> Overwrite(opened.Content, Bytes(data)),
                       Mode    |-> opened.Mode,
                       ModTime |-> IF got > 0 THEN Now ELSE opened.ModTime]
        put(f)     == [q \in (DOMAIN dir) \cup {outputPath} |->
                          IF q = outputPath THEN f ELSE dir[q]]
    IN  IF got < want
        THEN [err |-> Err("error writing file", outputPath), dir |-> put(written), pos |-> p + got]
        ELSE IF ~ChecksumMatches(Sum256(data), metadata.Checksum)
        THEN [err |-> Err("checksum mismatch for file", outputPath),
              dir |-> put(written), pos |-> p + got]
        ELSE [err |-> Nil,
              dir |-> put([written EXCEPT !.ModTime = metadata.ModTime]),
              pos |-> p + got]

(***************************************************************************)
(* Initial state: a packer was constructed, nothing has run.               *)
(***************************************************************************)
Init ==
    /\ \E cap \in 1..MaxBlockSize : \E v \in BOOLEAN :
           opts = [BlockSize |-> cap, VerifyIntegrity |-> v]
    /\ \E n \in 0..MaxFiles : \E sizes \in [1..n -> 0..(MaxBlockSize + 1)] :
           src = [i \in 1..n |-> SrcFile(i, sizes[i])]
    /\ dest = <<>>
    /\ out = <<>>
    /\ pc = "idle"
    /\ entry = "none"
    /\ files = <<>>
    /\ idx = 1
    /\ blockNum = 1
    /\ currentBlock = NewBlock(1)
    /\ currentSize = 0
    /\ packErr = Err("none", <<>>)
    /\ sealed = <<>>
    /\ tampered = {}
    /\ verifyErr = Err("none", <<>>)
    /\ queue = <<>>
    /\ ufiles = <<>>
    /\ pos = 0
    /\ k = 1
    /\ unpackErr = Err("none", <<>>)
    /\ extracted = {}
    /\ prev = <<>>
    /\ handles = {}
    /\ malformed = {}

\* the packer of the command line, with the block size and the file sizes
\* counted in MB: a capacity of 60, and files of 40, 30, 25 and 5
Scenario == [capacity |-> 60, sizes |-> <<40, 30, 25, 5>>]

\* a packer of that capacity and an input directory of up to four files, each of
\* one of these sizes
ScenarioInit ==
    /\ opts = [BlockSize |-> Scenario.capacity, VerifyIntegrity |-> TRUE]
    /\ \E n \in 0..Len(Scenario.sizes) :
       \E sizes \in [1..n -> {Scenario.sizes[j] : j \in 1..Len(Scenario.sizes)}] :
           src = [i \in 1..n |-> SrcFile(i, sizes[i])]
    /\ dest = <<>>
    /\ out = <<>>
    /\ pc = "idle"
    /\ entry = "none"
    /\ files = <<>>
    /\ idx = 1
    /\ blockNum = 1
    /\ currentBlock = NewBlock(1)
    /\ currentSize = 0
    /\ packErr = Err("none", <<>>)
    /\ sealed = <<>>
    /\ tampered = {}
    /\ verifyErr = Err("none", <<>>)
    /\ queue = <<>>
    /\ ufiles = <<>>
    /\ pos = 0
    /\ k = 1
    /\ unpackErr = Err("none", <<>>)
    /\ extracted = {}
    /\ prev = <<>>
    /\ handles = {}
    /\ malformed = {}

(***************************************************************************)
(* Pack and packFiles.                                                     *)
(***************************************************************************)
\* a packFiles that goes on counting blocks where the run before it stopped
BeginPackFiles_KeepsCounter(descriptors) ==
    /\ files' = descriptors
    /\ idx' = 1
    /\ blockNum' = blockNum
    /\ currentBlock' = NewBlock(blockNum)
    /\ currentSize' = 0
    /\ IF descriptors = <<>>
       THEN pc' = "packed" /\ packErr' = Nil
       ELSE pc' = "packFiles" /\ UNCHANGED packErr

\* packFiles up to its for loop; a loop over no descriptors returns nil at once
BeginPackFiles(descriptors) ==
    /\ files' = descriptors
    /\ idx' = 1
    /\ blockNum' = 1
    /\ currentBlock' = NewBlock(1)
    /\ currentSize' = 0
    /\ IF descriptors = <<>>
       THEN pc' = "packed" /\ packErr' = Nil
       ELSE pc' = "packFiles" /\ UNCHANGED packErr

\* Pack(inputDir, outputDir) up to its call of packFiles
Pack ==
    /\ pc = "idle"
    /\ entry' = "Pack"
    /\ IF Len(src) = 0
       THEN /\ pc' = "packed"
            /\ packErr' = Err("no files found in input directory", <<>>)
            /\ UNCHANGED packVars
       ELSE \E sorted \in SortSlice(collectFileInfo([i \in 1..Len(src) |-> src[i].Path])) :
                BeginPackFiles(sorted)
    /\ UNCHANGED <<opts, src, dest, out, sealed, tampered, verifyErr>>
    /\ UNCHANGED unpackVars
    /\ UNCHANGED auxVars

\* packFiles(files, outputDir) called on the descriptors of the input directory
\* as they are: neither filtered by size nor sorted
PackFilesCall ==
    /\ pc = "idle"
    /\ entry' = "packFiles"
    /\ BeginPackFiles([i \in 1..Len(src) |-> StatInfo(src[i])])
    /\ UNCHANGED <<opts, src, dest, out, sealed, tampered, verifyErr>>
    /\ UNCHANGED unpackVars
    /\ UNCHANGED auxVars

\* a fit test that turns away a file that fills the block exactly
DoesNotFit_Strict(size, fileSize) == size + fileSize >= opts.BlockSize

\* an off-by-one fit test
DoesNotFit_OffByOne(size, fileSize) == size + fileSize > opts.BlockSize + 1

\* a fit test that forgets what the open block already holds
DoesNotFit_IgnoresOpen(size, fileSize) == fileSize > opts.BlockSize

\* "if currentSize+file.Size > p.opts.BlockSize"
DoesNotFit(size, fileSize) == size + fileSize > opts.BlockSize

\* a counter that is not advanced
NextBlockNum_Same(n) == n

\* "blockNum++"
NextBlockNum(n) == n + 1

\* a test that never finds the last descriptor
IsLastIndex_Never(i, n) == FALSE

\* "if i == len(files)-1"; i counts from 0 in the code, from 1 here
IsLastIndex(i, n) == i = n

\* one iteration of the for loop of packFiles; the loop ends, and packFiles
\* returns nil, after the iteration of the last descriptor
PackFilesIter ==
    /\ pc = "packFiles"
    /\ LET file   == files[idx]
           full   == DoesNotFit(currentSize, file.Size)
           num0   == IF full THEN NextBlockNum(blockNum) ELSE blockNum
           size0  == IF full THEN 0 ELSE currentSize
           blk0   == IF full THEN NewBlock(NextBlockNum(blockNum)) ELSE currentBlock
           dest0  == IF full
                     THEN CreateFile(dest, blockNum, writeBlock(currentBlock, blockNum))
                     ELSE dest
           log0   == IF full THEN Append(sealed, currentBlock) ELSE sealed
           blk1   == addFileToBlock(blk0, file)
           last   == idx = Len(files)
           final  == IsLastIndex(idx, Len(files))
       IN  /\ blockNum' = num0
           /\ currentBlock' = blk1
           /\ currentSize' = size0 + file.Size
           /\ dest' = IF final THEN CreateFile(dest0, num0, writeBlock(blk1, num0)) ELSE dest0
           /\ sealed' = IF final THEN Append(log0, blk1) ELSE log0
           /\ idx' = idx + 1
           /\ IF last
              THEN pc' = "packed" /\ packErr' = Nil
              ELSE pc' = "packFiles" /\ UNCHANGED packErr
    /\ UNCHANGED <<opts, src, out, entry, files, tampered, verifyErr>>
    /\ UNCHANGED unpackVars
    /\ UNCHANGED auxVars

\* an iteration of the for loop of packFiles in which a writeBlock fails while it
\* copies the content of a record (a read error on the source file, a write
\* error on the block file): at "full", the writeBlock of the block that the
\* descriptor does not fit in; at "last", the writeBlock after the last
\* descriptor was appended.  packFiles returns the error.
WriteBlockFails ==
    /\ pc = "packFiles"
    /\ LET file  == files[idx]
           full  == DoesNotFit(currentSize, file.Size)
           num0  == IF full THEN NextBlockNum(blockNum) ELSE blockNum
           blk0  == IF full THEN NewBlock(NextBlockNum(blockNum)) ELSE currentBlock
           dest0 == IF full
                    THEN CreateFile(dest, blockNum, writeBlock(currentBlock, blockNum))
                    ELSE dest
           log0  == IF full THEN Append(sealed, currentBlock) ELSE sealed
           blk1  == addFileToBlock(blk0, file)
       IN  \/ /\ full
              /\ \E r \in 1..Len(currentBlock.Files) :
                 \E n \in 0..Len(FileAt(currentBlock.Files[r].Path).Content) :
                     /\ dest' = CreateFile(dest, blockNum,
                                           writeBlockUpTo(currentBlock, blockNum, r, n))
                     /\ handles' = handles \cup writeBlockLeavesOpen(currentBlock, r)
                     /\ packErr' = Err("error writing block", currentBlock.Files[r].Path)
              /\ sealed' = Append(sealed, currentBlock)
              /\ UNCHANGED packVars
           \/ /\ IsLastIndex(idx, Len(files))
              /\ \E r \in 1..Len(blk1.Files) :
                 \E n \in 0..Len(FileAt(blk1.Files[r].Path).Content) :
                     /\ dest' = CreateFile(dest0, num0, writeBlockUpTo(blk1, num0, r, n))
                     /\ handles' = handles \cup writeBlockLeavesOpen(blk1, r)
                     /\ packErr' = Err("error writing block", blk1.Files[r].Path)
              /\ sealed' = Append(log0, blk1)
              /\ blockNum' = num0
              /\ currentBlock' = blk1
              /\ currentSize' = (IF full THEN 0 ELSE currentSize) + file.Size
              /\ UNCHANGED <<files, idx>>
    /\ pc' = "packed"
    /\ UNCHANGED <<opts, src, out, entry, tampered, verifyErr, prev, malformed>>
    /\ UNCHANGED unpackVars

\* a second call of packFiles on the descriptor sequence of the first, with the
\* source files as they were, into an empty output directory; what the first
\* call wrote is kept in prev
PackAgain ==
    /\ pc = "packed"
    /\ packErr = Nil
    /\ prev = <<>>
    /\ prev' = <<[dest |-> dest, sealed |-> sealed]>>
    /\ dest' = <<>>
    /\ sealed' = <<>>
    /\ BeginPackFiles(files)
    /\ UNCHANGED <<opts, src, out, entry, tampered, verifyErr, handles, malformed>>
    /\ UNCHANGED unpackVars

\* between two runs of Pack with the same output directory: files are removed
\* from the end of the input directory (or none is).  The block files of the
\* first run stay in the output directory; prev remembers them, and sealed
\* starts again for the second run.
RemoveInput ==
    /\ pc = "packed"
    /\ entry = "Pack"
    /\ packErr = Nil
    /\ prev = <<>>
    /\ \E m \in 1..Len(src) : src' = SubSeq(src, 1, m)
    /\ prev' = <<[dest |-> dest, sealed |-> sealed]>>
    /\ sealed' = <<>>
    /\ pc' = "idle"
    /\ UNCHANGED <<opts, dest, out, entry, packErr, tampered, verifyErr, handles, malformed>>
    /\ UNCHANGED packVars
    /\ UNCHANGED unpackVars

(***************************************************************************)
(* The environment between packing and reading: one cell of the payload    *)
(* section of a block file is changed.                                     *)
(***************************************************************************)
\* the Block value writeBlock wrote as block-<b>.beam
SealedBlock(b) == CHOOSE blk \in {sealed[i] : i \in 1..Len(sealed)} : blk.ID = b

\* stream indices of the payload section of the block file written for blk
PayloadCells(blk) ==
    LET start == 2 + Len(MetadataSection(blk.Files))
    IN  (start + 1)..(start + Len(PayloadSection(blk.Files)))

\* stream indices of the payload of record r of blk
RecordCells(blk, r) ==
    LET start == 2 + Len(MetadataSection(blk.Files)) + SumSizes(SubSeq(blk.Files, 1, r - 1))
    IN  (start + 1)..(start + blk.Files[r].Size)

Tamper ==
    /\ pc = "packed"
    /\ entry = "Pack"
    /\ packErr = Nil
    /\ Cardinality(tampered) < MaxTamper
    /\ \E b \in DOMAIN dest : \E i \in PayloadCells(SealedBlock(b)) :
           /\ <<b, i>> \notin tampered
           /\ dest' = [dest EXCEPT ![b][i] = Cell(0)]   \* no source file holds a 0 byte
           /\ tampered' = tampered \cup {<<b, i>>}
    /\ UNCHANGED <<opts, src, out, pc, entry, packErr, sealed, verifyErr>>
    /\ UNCHANGED packVars
    /\ UNCHANGED unpackVars
    /\ UNCHANGED auxVars

\* the file count field of a block file is overwritten: with a negative number,
\* or with a number of records larger than the number of cells of the file
SetFileCount ==
    /\ pc = "packed"
    /\ entry = "Pack"
    /\ packErr = Nil
    /\ tampered = {}
    /\ malformed = {}
    /\ \E b \in DOMAIN dest : \E n \in {-1, Len(dest[b])} :
           /\ dest' = [dest EXCEPT ![b][2] = Cell(n)]
           /\ malformed' = {<<b, IF n < 0 THEN "negative count" ELSE "excess count">>}
    /\ UNCHANGED <<opts, src, out, pc, entry, packErr, sealed, tampered, verifyErr,
                   prev, handles>>
    /\ UNCHANGED packVars
    /\ UNCHANGED unpackVars

\* a block file is cut short inside its metadata section: the header stays, and
\* at least the last cell of the last record is gone
Truncate ==
    /\ pc = "packed"
    /\ entry = "Pack"
    /\ packErr = Nil
    /\ tampered = {}
    /\ malformed = {}
    /\ \E b \in DOMAIN dest :
           \E n \in 2..(1 + Len(MetadataSection(SealedBlock(b).Files))) :
               /\ dest' = [dest EXCEPT ![b] = SubSeq(dest[b], 1, n)]
               /\ malformed' = {<<b, "cut">>}
    /\ UNCHANGED <<opts, src, out, pc, entry, packErr, sealed, tampered, verifyErr,
                   prev, handles>>
    /\ UNCHANGED packVars
    /\ UNCHANGED unpackVars

(***************************************************************************)
(* Verify, Unpack, UnpackBlock.                                            *)
(***************************************************************************)
\* Verify(inputDir) on the block directory Pack wrote
Verify ==
    /\ pc = "packed"
    /\ entry = "Pack"
    /\ packErr = Nil
    /\ verifyErr' = VerifyEntries(SortedEntries(DOMAIN dest))
    /\ pc' = "verified"
    /\ UNCHANGED <<opts, src, dest, out, entry, packErr, sealed, tampered>>
    /\ UNCHANGED packVars
    /\ UNCHANGED unpackVars
    /\ UNCHANGED auxVars

\* a file left in the unpack directory by an earlier run, longer than any file of
\* the input directory
OldFile ==
    [Content |-> [j \in 1..(MaxBlockSize + 2) |-> 99],
     Mode    |-> 384,
     ModTime |-> [sec |-> 50, nsec |-> 0]]

\* the directories Unpack is pointed at: an empty one, and one that holds OldFile
OutputDirs == {<<>>, [q \in {Path(1)} |-> OldFile]}

\* return of UnpackBlock with nil inside the loop of Unpack: the next entry, or
\* return nil
NextEntry ==
    /\ queue' = Tail(queue)
    /\ ufiles' = <<>>
    /\ pos' = 0
    /\ k' = 1
    /\ IF Tail(queue) = <<>>
       THEN pc' = "done" /\ unpackErr' = Nil
       ELSE pc' = "unpack" /\ UNCHANGED unpackErr

\* Unpack(inputDir, outputDir) up to its loop over the directory entries;
\* inputDir is the block directory Pack wrote, outputDir names one of OutputDirs,
\* and out is that directory from here on
Unpack ==
    /\ pc = "packed"
    /\ entry = "Pack"
    /\ packErr = Nil
    /\ \E outputDir \in OutputDirs : out' = outputDir
    /\ queue' = SortedEntries(DOMAIN dest)
    /\ IF DOMAIN dest = {}
       THEN pc' = "done" /\ unpackErr' = Nil
       ELSE pc' = "unpack" /\ UNCHANGED unpackErr
    /\ UNCHANGED <<opts, src, dest, entry, packErr, sealed, tampered, verifyErr>>
    /\ UNCHANGED <<ufiles, pos, k, extracted>>
    /\ UNCHANGED packVars
    /\ UNCHANGED auxVars

\* UnpackBlock(blockPath, outputDir) up to its extract loop; a panic ends the
\* program (pc "crashed") with the block it was reading at the head of queue
UnpackBlock ==
    /\ pc = "unpack"
    /\ LET s       == dest[Head(queue)]
           valid   == IF opts.VerifyIntegrity THEN ValidateBlock(s) ELSE Nil
           decoded == DecodeBlock(s)
       IN  IF valid # Nil
           THEN /\ unpackErr' = valid
                /\ pc' = "done"
                /\ UNCHANGED <<queue, ufiles, pos, k>>
           ELSE IF decoded.err = MakeslicePanic
           THEN /\ pc' = "crashed"
                /\ UNCHANGED <<queue, ufiles, pos, k, unpackErr>>
           ELSE IF decoded.err # "nil"
           THEN /\ unpackErr' = Err(decoded.err, <<Head(queue)>>)
                /\ pc' = "done"
                /\ UNCHANGED <<queue, ufiles, pos, k>>
           ELSE IF decoded.recs = <<>>
           THEN NextEntry
           ELSE /\ ufiles' = decoded.recs
                /\ pos' = decoded.pos
                /\ k' = 1
                /\ pc' = "extract"
                /\ UNCHANGED <<queue, unpackErr>>
    /\ UNCHANGED <<opts, src, dest, out, entry, packErr, sealed, tampered, verifyErr, extracted>>
    /\ UNCHANGED packVars
    /\ UNCHANGED auxVars

\* an extract loop that goes on after a failed extraction
ExtractFailed_Ignored(err) == FALSE

\* "if err := p.extractFile(f, outputDir, &metadata); err != nil { return ... }"
ExtractFailed(err) == err # Nil

\* one iteration of the extract loop of UnpackBlock
ExtractFile ==
    /\ pc = "extract"
    /\ LET res == extractFile(dest[Head(queue)], pos, out, ufiles[k])
       IN  /\ out' = res.dir
           /\ IF ExtractFailed(res.err)
              THEN /\ unpackErr' = res.err
                   /\ pc' = "done"
                   /\ pos' = res.pos
                   /\ UNCHANGED <<queue, ufiles, k, extracted>>
              ELSE /\ extracted' = extracted \cup {<<Head(queue), k>>}
                   /\ IF k = Len(ufiles)
                      THEN NextEntry
                      ELSE /\ k' = k + 1
                           /\ pos' = res.pos
                           /\ UNCHANGED <<queue, ufiles, pc, unpackErr>>
    /\ UNCHANGED <<opts, src, dest, entry, packErr, sealed, tampered, verifyErr>>
    /\ UNCHANGED packVars
    /\ UNCHANGED auxVars

\* the packing run alone
PackNext ==
    \/ Pack
    \/ PackFilesCall
    \/ PackFilesIter

PackSpec == Init /\ [][PackNext]_vars

\* the packing run on the directories of the scenario
ScenarioSpec == ScenarioInit /\ [][PackNext]_vars

\* two packing runs in a row
RepackNext ==
    \/ Pack
    \/ PackFilesCall
    \/ PackFilesIter
    \/ PackAgain

RepackSpec == Init /\ [][RepackNext]_vars

\* a packing run in which a copy into a block file may fail
FaultNext ==
    \/ Pack
    \/ PackFilesCall
    \/ PackFilesIter
    \/ WriteBlockFails

FaultSpec == Init /\ [][FaultNext]_vars

Next ==
    \/ Pack
    \/ PackFilesCall
    \/ PackFilesIter
    \/ Tamper
    \/ Verify
    \/ Unpack
    \/ UnpackBlock
    \/ ExtractFile

Spec == Init /\ [][Next]_vars

\* a packing run and Verify of what it wrote
VerifyNext ==
    \/ Pack
    \/ PackFilesCall
    \/ PackFilesIter
    \/ Verify

VerifySpec == Init /\ [][VerifyNext]_vars

\* Pack, then Unpack of the untouched blocks
UnpackNext ==
    \/ Pack
    \/ PackFilesIter
    \/ Unpack
    \/ UnpackBlock
    \/ ExtractFile

UnpackSpec == Init /\ [][UnpackNext]_vars

\* Pack, Pack again into the same output directory, Unpack
StaleNext ==
    \/ Pack
    \/ PackFilesIter
    \/ RemoveInput
    \/ Unpack
    \/ UnpackBlock
    \/ ExtractFile

StaleSpec == Init /\ [][StaleNext]_vars

\* Pack, damage to the structure of a block file, Unpack
DecodeNext ==
    \/ Pack
    \/ PackFilesIter
    \/ SetFileCount
    \/ Truncate
    \/ Unpack
    \/ UnpackBlock
    \/ ExtractFile

DecodeSpec == Init /\ [][DecodeNext]_vars

(***************************************************************************)
(* Properties.                                                             *)
(***************************************************************************)
\* the metadata records stored in block-<b>.beam
StoredFiles(b) == DecodeBlock(dest[b]).recs

\* no descriptor handed to packFiles is larger than the capacity
NoOversizedDescriptor == \A i \in 1..Len(files) : files[i].Size <= opts.BlockSize

\* the packing run has returned
PackReturned == pc \notin {"idle", "packFiles"}

\* C1: when no descriptor handed to packFiles is larger than the capacity, the
\* record sizes of every block file written so far sum to at most the capacity.
C1_CapacityInvariant ==
    NoOversizedDescriptor =>
        \A b \in DOMAIN dest : SumSizes(StoredFiles(b)) <= opts.BlockSize

\* packFiles, called on unsorted descriptors, has written two blocks, one of them
\* filled to the capacity by two records
C1_Witness ==
    /\ entry = "packFiles"
    /\ pc = "packed"
    /\ NoOversizedDescriptor
    /\ Cardinality(DOMAIN dest) >= 2
    /\ \E b \in DOMAIN dest :
           /\ Len(StoredFiles(b)) = 2
           /\ StoredFiles(b)[1].Size > 0
           /\ SumSizes(StoredFiles(b)) = opts.BlockSize

Contiguous(recs) ==
    /\ recs # <<>> => recs[1].Offset = 0
    /\ \A i \in 1..(Len(recs) - 1) : recs[i + 1].Offset = recs[i].Offset + recs[i].Size

\* C2: the records of the open block, after every append, and the records stored
\* in every written block file have contiguous offsets starting at 0.
C2_OffsetContiguity ==
    /\ Contiguous(currentBlock.Files)
    /\ \A b \in DOMAIN dest : Contiguous(StoredFiles(b))

\* a written block file holds two records, the second at an offset greater than
\* 0, and the block opened after it holds a record
C2_Witness ==
    /\ Len(currentBlock.Files) = 1
    /\ currentBlock.Files[1].Size > 0
    /\ \E b \in DOMAIN dest :
           /\ b < currentBlock.ID
           /\ Len(StoredFiles(b)) = 2
           /\ StoredFiles(b)[2].Offset > 0

\* UnpackBlock, called by Unpack on block-<b>.beam, has returned
UnpackBlockReturned(b) ==
    \/ pc \in {"unpack", "extract"} /\ \A i \in 1..Len(queue) : queue[i] # b
    \/ pc = "done" /\ \A i \in 2..Len(queue) : queue[i] # b

\* ... and it returned an error
UnpackBlockFailed(b) == pc = "done" /\ queue # <<>> /\ Head(queue) = b

TamperedIn(b) == {c \in tampered : c[1] = b}

\* the restored file of source file f: where it is, and what it holds
Restored(f) ==
    /\ f.Path \in DOMAIN out
    /\ out[f.Path].Content = f.Content
    /\ Len(out[f.Path].Content) = Len(f.Content)
    /\ out[f.Path].Mode = f.Mode
    /\ out[f.Path].ModTime = [sec |-> f.ModTime.sec, nsec |-> 0]

\* C3: after Pack and then Unpack of the untouched blocks have both returned nil,
\* every source file is restored under its stored path with the same bytes, size,
\* permission bits and whole-second modification time.  Stated here for the
\* source files Pack does not skip (those no larger than the capacity), which is
\* the least the claim says.
C3_RoundTrip ==
    (entry = "Pack" /\ packErr = Nil /\ tampered = {} /\ pc = "done" /\ unpackErr = Nil) =>
        \A i \in 1..Len(src) :
            Len(src[i].Content) <= opts.BlockSize => Restored(src[i])

\* C4: when exactly one payload cell of a block file written by Pack has been
\* changed, ValidateBlock returns a BlockIntegrityError for that block, so does
\* Verify, and UnpackBlock with VerifyIntegrity on returns that error without
\* having extracted a record of the block.
C4_TamperDetection ==
    \A b \in DOMAIN dest :
        (entry = "Pack" /\ Cardinality(TamperedIn(b)) = 1) =>
            /\ ValidateBlock(dest[b]) = Err("BlockIntegrityError", <<b>>)
            /\ verifyErr # Err("none", <<>>) => verifyErr.kind = "BlockIntegrityError"
            /\ (opts.VerifyIntegrity /\ UnpackBlockReturned(b)) =>
                   /\ UnpackBlockFailed(b)
                   /\ unpackErr = Err("BlockIntegrityError", <<b>>)
                   /\ \A r \in 1..Len(StoredFiles(b)) : <<b, r>> \notin extracted

\* with VerifyIntegrity on, Unpack reached a block with one changed payload cell
\* and returned a BlockIntegrityError
C4_Witness ==
    /\ opts.VerifyIntegrity
    /\ pc = "done"
    /\ unpackErr.kind = "BlockIntegrityError"
    /\ \E b \in DOMAIN dest : Cardinality(TamperedIn(b)) = 1 /\ UnpackBlockFailed(b)

\* the payload of record r, and of no other record, of block b has been changed
OnlyRecordCorrupted(b, r) ==
    /\ TamperedIn(b) # {}
    /\ \A c \in TamperedIn(b) : c[2] \in RecordCells(SealedBlock(b), r)

\* C5 as claimed: with VerifyIntegrity off and one record of a block corrupted,
\* UnpackBlock returns a checksum-mismatch error for that record's path and every
\* other record of the block, before or after it, has been extracted.
C5_SiblingsAllExtracted ==
    \A b \in DOMAIN dest : \A r \in 1..Len(StoredFiles(b)) :
        (entry = "Pack" /\ ~opts.VerifyIntegrity /\ OnlyRecordCorrupted(b, r)
         /\ UnpackBlockReturned(b)) =>
            /\ UnpackBlockFailed(b)
            /\ unpackErr = Err("checksum mismatch for file", StoredFiles(b)[r].Path)
            /\ \A q \in 1..Len(StoredFiles(b)) : q # r => <<b, q>> \in extracted

\* C5 as amended: with VerifyIntegrity off and one record of a block corrupted,
\* UnpackBlock returns a checksum-mismatch error for that record's path; the
\* records before it have been extracted, and neither it nor any record after
\* it has.
C5_PrecedingSiblingsExtracted ==
    \A b \in DOMAIN dest : \A r \in 1..Len(StoredFiles(b)) :
        (entry = "Pack" /\ ~opts.VerifyIntegrity /\ OnlyRecordCorrupted(b, r)
         /\ UnpackBlockReturned(b)) =>
            /\ UnpackBlockFailed(b)
            /\ unpackErr = Err("checksum mismatch for file", StoredFiles(b)[r].Path)
            /\ \A q \in 1..Len(StoredFiles(b)) :
                   IF q < r THEN <<b, q>> \in extracted ELSE <<b, q>> \notin extracted

\* with VerifyIntegrity off, the second of three records was corrupted: the first
\* was extracted, the third was not
C5_Witness ==
    /\ ~opts.VerifyIntegrity
    /\ pc = "done"
    /\ \E b \in DOMAIN dest :
           /\ Len(StoredFiles(b)) = 3
           /\ OnlyRecordCorrupted(b, 2)
           /\ UnpackBlockFailed(b)
           /\ <<b, 1>> \in extracted
           /\ <<b, 3>> \notin extracted

\* C6: when packFiles is handed a descriptor larger than the capacity, it writes
\* no block and returns an error; no written block holds more than the capacity.
C6_FailsFastOnOversized ==
    (entry = "packFiles" /\ ~NoOversizedDescriptor) =>
        /\ dest = <<>>
        /\ PackReturned => packErr # Nil
        /\ \A b \in DOMAIN dest : SumSizes(StoredFiles(b)) <= opts.BlockSize

\* no regular file of the input directory is small enough to be packed
NoEligibleFile == \A i \in 1..Len(src) : Len(src[i].Content) > opts.BlockSize

\* C7: Pack returns an error whenever no file of the input directory is eligible.
C7_ErrorWithoutEligibleFiles ==
    (entry = "Pack" /\ PackReturned /\ NoEligibleFile) => packErr # Nil

\* C8 as claimed: in the blocks written by Pack, a record whose size equals the
\* capacity is the only record of its block.
C8_FullFileAlone ==
    entry = "Pack" =>
        \A b \in DOMAIN dest : \A r \in 1..Len(StoredFiles(b)) :
            StoredFiles(b)[r].Size = opts.BlockSize => Len(StoredFiles(b)) = 1

\* C8 as amended: in the blocks written by Pack, a record whose size equals the
\* capacity shares its block only with records of size zero.
C8_FullFileAloneButForEmpty ==
    entry = "Pack" =>
        \A b \in DOMAIN dest : \A r \in 1..Len(StoredFiles(b)) :
            StoredFiles(b)[r].Size = opts.BlockSize =>
                \A q \in 1..Len(StoredFiles(b)) : q # r => StoredFiles(b)[q].Size = 0

\* Pack wrote a block whose first record fills the capacity and whose second
\* record is an empty file, and a further block
C8_Witness ==
    /\ entry = "Pack"
    /\ pc = "packed"
    /\ opts.BlockSize > 0
    /\ Cardinality(DOMAIN dest) >= 2
    /\ \E b \in DOMAIN dest :
           /\ Len(StoredFiles(b)) = 2
           /\ StoredFiles(b)[1].Size = opts.BlockSize
           /\ StoredFiles(b)[2].Size = 0

\* source file f is a record of some written block
Packed(f) ==
    \E b \in DOMAIN dest : \E r \in 1..Len(StoredFiles(b)) : StoredFiles(b)[r].Path = f.Path

\* C9: a file larger than the capacity is in no block written by Pack and does
\* not make Pack return an error; a file of exactly the capacity is packed.
C9_OversizedSkipped ==
    entry = "Pack" =>
        /\ \A i \in 1..Len(src) :
               Len(src[i].Content) > opts.BlockSize => ~Packed(src[i])
        /\ (PackReturned /\ \E i \in 1..Len(src) : Len(src[i].Content) > opts.BlockSize) =>
               packErr = Nil
        /\ (PackReturned /\ packErr = Nil) =>
               \A i \in 1..Len(src) :
                   Len(src[i].Content) = opts.BlockSize => Packed(src[i])

\* Pack returned nil on a directory with a file one byte larger than the capacity
\* and a file of exactly the capacity; a block was written
C9_Witness ==
    /\ entry = "Pack"
    /\ pc = "packed"
    /\ packErr = Nil
    /\ dest # <<>>
    /\ \E i \in 1..Len(src) : Len(src[i].Content) = opts.BlockSize + 1
    /\ \E i \in 1..Len(src) : Len(src[i].Content) = opts.BlockSize /\ Packed(src[i])

\* position of the file with this path in the walk of the input directory
DiscoveryIndex(path) == CHOOSE i \in 1..Len(src) : src[i].Path = path

\* C10: in the blocks written by Pack, a record placed before another (in an
\* earlier block, or earlier in the same block) is not smaller, and of two
\* records of equal size the one discovered first is placed first.
C10_StableDescendingOrder ==
    (entry = "Pack" /\ pc = "packed" /\ packErr = Nil) =>
        \A b1 \in DOMAIN dest : \A b2 \in DOMAIN dest :
            \A r1 \in 1..Len(StoredFiles(b1)) : \A r2 \in 1..Len(StoredFiles(b2)) :
                LET m1 == StoredFiles(b1)[r1]
                    m2 == StoredFiles(b2)[r2]
                    before == b1 < b2 \/ (b1 = b2 /\ r1 < r2)
                IN  /\ before => m1.Size >= m2.Size
                    /\ (m1.Size = m2.Size
                        /\ DiscoveryIndex(m1.Path) < DiscoveryIndex(m2.Path)) => before

HeaderID(s) == ReadInt(s, 0).val

\* the block files written so far are block-1 .. block-n, the i-th call of
\* writeBlock wrote block i, and every header holds the number of its file name
IDsInOrder ==
    /\ DOMAIN dest = 1..Len(sealed)
    /\ \A i \in 1..Len(sealed) : sealed[i].ID = i
    /\ \A b \in DOMAIN dest : HeaderID(dest[b]) = b

\* a step leaves every block file that exists as it is
WrittenBlocksKept ==
    \A b \in DOMAIN dest : b \in DOMAIN dest' /\ dest'[b] = dest[b]

\* C12: within one packing run the blocks are written in the order 1, 2, ..., n
\* without gap or repeat, the ID in a block's header is the N of block-<N>.beam,
\* and no step of the run writes or changes a block file that was written before.
C12_OrderedAndImmutable == []IDsInOrder /\ [][WrittenBlocksKept]_vars

\* a run has written three blocks
C12_Witness ==
    /\ pc = "packed"
    /\ packErr = Nil
    /\ Len(sealed) = 3
    /\ DOMAIN dest = 1..3

\* the paths of the records stored in block-1 .. block-n, block by block
RECURSIVE WrittenPaths(_)
WrittenPaths(n) ==
    IF n = 0 THEN <<>>
    ELSE WrittenPaths(n - 1)
         \o [r \in 1..Len(StoredFiles(n)) |-> StoredFiles(n)[r].Path]

\* C13: when packFiles has returned nil on a non-empty descriptor sequence, the
\* block files are block-1 up to the block that was open last, and their records,
\* block by block, are the descriptors in their order: each descriptor is in
\* exactly one written block, none is dropped and none is there twice.
C13_EveryDescriptorWritten ==
    (pc = "packed" /\ packErr = Nil /\ files # <<>>) =>
        /\ DOMAIN dest = 1..blockNum
        /\ WrittenPaths(blockNum) = [i \in 1..Len(files) |-> files[i].Path]

\* packFiles returned after three descriptors; the block that was open last is
\* the second one and is not full
C13_Witness ==
    /\ pc = "packed"
    /\ packErr = Nil
    /\ Len(files) = 3
    /\ blockNum = 2
    /\ DOMAIN dest = 1..2
    /\ Len(StoredFiles(2)) >= 1
    /\ SumSizes(StoredFiles(2)) < opts.BlockSize

\* the last DigestCells cells of a block file
Footer(s) == SubSeq(s, Len(s) - DigestCells + 1, Len(s))

\* C14: every block file that writeBlock wrote and nothing changed since ends
\* with a footer that is the SHA-256 digest of all the cells before it, so
\* ValidateBlock returns nil for it, and Verify returns nil for a directory of
\* such files.
C14_FooterIsDigestOfRest ==
    /\ \A b \in DOMAIN dest :
           (TamperedIn(b) = {} /\ malformed = {}) =>
               /\ Len(dest[b]) >= DigestCells
               /\ Footer(dest[b]) = Sum256(HashedPart(dest[b]))
               /\ ValidateBlock(dest[b]) = Nil
    /\ (pc = "verified" /\ tampered = {} /\ malformed = {}) => verifyErr = Nil

\* Verify returned nil on two untouched blocks written by Pack, one of them with
\* a payload of two files
C14_Witness ==
    /\ pc = "verified"
    /\ verifyErr = Nil
    /\ tampered = {}
    /\ Cardinality(DOMAIN dest) >= 2
    /\ \E b \in DOMAIN dest :
           Len(StoredFiles(b)) = 2 /\ SumSizes(StoredFiles(b)) = opts.BlockSize

\* UnpackBlock is in its extract loop on block-<b>.beam
Extracting(b) == pc = "extract" /\ Head(queue) = b

\* C15: when the file count field of a block file is negative, or larger than
\* the file can hold records, UnpackBlock does not crash on the block and does
\* not reach its extract loop: it returns an error, and no record of the block
\* has been extracted.
C15_BadCountIsAnError ==
    \A b \in DOMAIN dest :
        (<<b, "negative count">> \in malformed \/ <<b, "excess count">> \in malformed) =>
            /\ ~(pc = "crashed" /\ Head(queue) = b)
            /\ ~Extracting(b)
            /\ UnpackBlockReturned(b) =>
                   /\ UnpackBlockFailed(b)
                   /\ unpackErr # Nil
                   /\ \A r \in 1..Len(SealedBlock(b).Files) : <<b, r>> \notin extracted

\* C16: when a block file ends inside a field of a metadata record, decoding
\* fails: UnpackBlock returns an error and never enters its extract loop with
\* records read from the cut file.
C16_CutFieldFailsDecode ==
    \A b \in DOMAIN dest :
        <<b, "cut">> \in malformed =>
            /\ ~Extracting(b)
            /\ UnpackBlockReturned(b) => (UnpackBlockFailed(b) /\ unpackErr # Nil)

\* the file that the extraction of record m left at its path is there: its first
\* m.Size bytes are the bytes of the source file and its modification time is
\* the stored one
LeftInPlace(m) ==
    /\ m.Path \in DOMAIN out
    /\ SubSeq(out[m.Path].Content, 1, m.Size) = FileAt(m.Path).Content
    /\ out[m.Path].ModTime = m.ModTime

\* nothing was written at the path of record m: no file is there, or the file
\* an earlier run left
Untouched(m) == m.Path \in DOMAIN out => out[m.Path] = OldFile

\* C17: when the digest comparison of record r of a block fails (its payload was
\* changed, verification of the block is off), UnpackBlock returns the
\* checksum-mismatch error naming the path of record r; no record after r has
\* been extracted or written; and the files of the records before r are in the
\* destination as their extraction left them.
C17_AbortWithoutRollback ==
    \A b \in DOMAIN dest : \A r \in 1..Len(StoredFiles(b)) :
        (entry = "Pack" /\ ~opts.VerifyIntegrity /\ OnlyRecordCorrupted(b, r)
         /\ UnpackBlockReturned(b)) =>
            /\ UnpackBlockFailed(b)
            /\ unpackErr = Err("checksum mismatch for file", StoredFiles(b)[r].Path)
            /\ \A q \in (r + 1)..Len(StoredFiles(b)) :
                   <<b, q>> \notin extracted /\ Untouched(StoredFiles(b)[q])
            /\ \A q \in 1..(r - 1) :
                   <<b, q>> \in extracted /\ LeftInPlace(StoredFiles(b)[q])

\* the second record of a block failed its digest comparison; the file of the
\* first record, one byte or more, is in the destination
C17_Witness ==
    /\ ~opts.VerifyIntegrity
    /\ pc = "done"
    /\ unpackErr.kind = "checksum mismatch for file"
    /\ \E b \in DOMAIN dest :
           /\ Len(StoredFiles(b)) >= 2
           /\ OnlyRecordCorrupted(b, 2)
           /\ UnpackBlockFailed(b)
           /\ StoredFiles(b)[1].Size > 0
           /\ LeftInPlace(StoredFiles(b)[1])

\* C18: with VerifyIntegrity on, when Unpack has returned a block-integrity
\* error, no record of any block of the directory has been extracted and the
\* destination holds nothing that this Unpack wrote.
C18_IntegrityErrorBlocksUnpack ==
    (opts.VerifyIntegrity /\ pc = "done" /\ unpackErr.kind = "BlockIntegrityError") =>
        /\ extracted = {}
        /\ out \in OutputDirs

\* C19: when Pack has returned, with nil or with an error, it holds no file
\* handle open.
C19_NoHandleLeftOpen ==
    (entry = "Pack" /\ PackReturned) => handles = {}

\* the sizes of the records stored in block-<b>.beam, in their order
StoredSizes(b) == [r \in 1..Len(StoredFiles(b)) |-> StoredFiles(b)[r].Size]

\* during packFiles one block is open, the block of the highest ID: every block
\* file written has a lower number, and the descriptors handled so far are the
\* records of the written blocks followed by those of the open block
OneOpenBlock ==
    pc = "packFiles" =>
        /\ currentBlock.ID = blockNum
        /\ DOMAIN dest = 1..(blockNum - 1)
        /\ WrittenPaths(blockNum - 1)
               \o [r \in 1..Len(currentBlock.Files) |-> currentBlock.Files[r].Path]
           = [i \in 1..(idx - 1) |-> files[i].Path]

\* an iteration of packFiles appends its descriptor to the open block, whose ID
\* is above that of every written block, and leaves every written block as it is
AppendsToOpenBlockOnly ==
    pc = "packFiles" =>
        /\ currentBlock'.Files # <<>>
        /\ currentBlock'.Files[Len(currentBlock'.Files)].Path = files[idx].Path
        /\ currentBlock'.Files[Len(currentBlock'.Files)].BlockID = currentBlock'.ID
        /\ \A b \in DOMAIN dest :
               b <= currentBlock'.ID /\ (b < currentBlock'.ID => dest'[b] = dest[b])

\* capacity 60 and descriptors of sizes 40, 30, 25, 5 give the blocks {40} and
\* {30, 25, 5}
ScenarioResult ==
    (pc = "packed" /\ packErr = Nil /\ opts.BlockSize = Scenario.capacity
     /\ [i \in 1..Len(files) |-> files[i].Size] = Scenario.sizes) =>
        /\ DOMAIN dest = 1..2
        /\ StoredSizes(1) = SubSeq(Scenario.sizes, 1, 1)
        /\ StoredSizes(2) = SubSeq(Scenario.sizes, 2, 4)

ConsecutiveBlocksDoNotFit ==
    \A b \in DOMAIN dest :
        (b + 1) \in DOMAIN dest =>
            /\ StoredFiles(b + 1) # <<>>
            /\ SumSizes(StoredFiles(b)) + StoredFiles(b + 1)[1].Size > opts.BlockSize

\* an iteration of packFiles stays with the open block when its descriptor fits,
\* a descriptor that fills the block to the capacity included, and opens the
\* next block when it does not
OpensBlockExactlyWhenNoFit ==
    pc = "packFiles" =>
        IF SumSizes(currentBlock.Files) + files[idx].Size <= opts.BlockSize
        THEN /\ currentBlock'.ID = currentBlock.ID
             /\ currentBlock'.Files = Append(currentBlock.Files,
                                             currentBlock'.Files[Len(currentBlock'.Files)])
        ELSE /\ currentBlock'.ID = currentBlock.ID + 1
             /\ Len(currentBlock'.Files) = 1

C23_NoEmptyBlock ==
    (files # <<>> /\ NoOversizedDescriptor) =>
        \A b \in DOMAIN dest :
            /\ ReadInt(dest[b], 1).val >= 1
            /\ Len(StoredFiles(b)) >= 1

\* packFiles returned after descriptors that begin with an empty file and go on
\* with a file of exactly the capacity; it wrote two blocks or more
C23_Witness ==
    /\ entry = "packFiles"
    /\ pc = "packed"
    /\ packErr = Nil
    /\ NoOversizedDescriptor
    /\ Len(files) >= 2
    /\ files[1].Size = 0
    /\ files[2].Size = opts.BlockSize
    /\ Cardinality(DOMAIN dest) >= 2

\* the number of cells that writeBlock wrote before the payload section of blk
PayloadStart(blk) == 2 + Len(MetadataSection(blk.Files))

\* C22: while UnpackBlock extracts from a block written by Pack, at the start of
\* the extraction of each record the number of payload cells read so far is the
\* record's stored offset (for the first record: decoding stopped where the
\* payload section starts), and the extraction of the last record leaves
\* exactly the footer unread.
C22_CursorAtStoredOffset ==
    (pc = "extract" /\ entry = "Pack" /\ malformed = {}) =>
        LET s     == dest[Head(queue)]
            start == PayloadStart(SealedBlock(Head(queue)))
        IN  /\ pos - start = ufiles[k].Offset
            /\ k = Len(ufiles) =>
                   Len(s) - extractFile(s, pos, out, ufiles[k]).pos = DigestCells

\* the extraction of the last of two or more records begins, at an offset
\* above 0
C22_Witness ==
    /\ pc = "extract"
    /\ entry = "Pack"
    /\ k >= 2
    /\ k = Len(ufiles)
    /\ ufiles[k].Offset > 0
    /\ ufiles[k].Size > 0
    /\ pos = PayloadStart(SealedBlock(Head(queue))) + ufiles[k].Offset

\* the payload bytes of record r of block-<b>.beam
PayloadOf(b, r) ==
    LET cells == RecordCells(SealedBlock(b), r)
    IN  Bytes([j \in 1..Cardinality(cells) |-> dest[b][PayloadStart(SealedBlock(b))
                  + StoredFiles(b)[r].Offset + j]])

\* C25: once extractFile has returned nil for a record, the file at the record's
\* path holds exactly the record's size bytes of the payload, whatever was at
\* that path before.
C25_ExactlyTheRecordsBytes ==
    \A e \in extracted :
        LET m == StoredFiles(e[1])[e[2]]
        IN  /\ m.Path \in DOMAIN out
            /\ Len(out[m.Path].Content) = m.Size
            /\ out[m.Path].Content = PayloadOf(e[1], e[2])

\* C24: after Pack has returned nil, the block files of the output directory are
\* the blocks 1..n that this run wrote, and a following Unpack of the directory
\* reads and extracts from these blocks only.
C24_OnlyThisRunsBlocks ==
    (entry = "Pack" /\ PackReturned /\ packErr = Nil) =>
        /\ DOMAIN dest = 1..Len(sealed)
        /\ \A i \in 1..Len(queue) : queue[i] \in 1..Len(sealed)
        /\ \A e \in extracted : e[1] \in 1..Len(sealed)

====
